---- MODULE Spec2Model ----
(***************************************************************************)
(* PvP wheel: several browser clients (the WheelGame component with the    *)
(* useGameDatabase hook) play rounds kept in one shared store (the games   *)
(* and game_participants tables).                                          *)
(*                                                                         *)
(* Each client keeps a mirror of the round (currentGameId, dbPlayers,      *)
(* players, gameCountdown, isSpinning, winner, rollNumber).  Every await   *)
(* of a handler is a suspension point, so a handler is a chain of actions  *)
(* linked by a per-client program position (gc, join, spin).  Values a     *)
(* handler captured from the render it was created in (players,            *)
(* currentGameId, rollNumber) are kept in that record; functional state    *)
(* updates (setPlayers(prev => ...)) read the latest state.                *)
(*                                                                         *)
(* lib/supabase (dbHelpers) is not part of the sources at hand: its        *)
(* operations are the Db* definitions, written from the storage boundary   *)
(* of the specification (section 6) and from the SQL schema.               *)
(***************************************************************************)
EXTENDS Integers, Sequences, FiniteSets, TLC

\* ---------------------------------------------------------------- bounds
\* The clients of the model; client c is the Telegram player with id c.
Clients == {1, 2}
\* Seconds the clock advances per Tick, and the last instant of the clock.
TickSeconds == 60
MaxNow == 60
\* Rows the games table may hold.
MaxGames == 2
\* Gift units every client owns at the start (each worth one TON unit).
InventoryUnits == 1
\* Participants of players outside Clients that the waiting round may already
\* hold when the clients open the app (or it is full, or the store is empty).
Prefill == 1
\* Spins the clients may start altogether (a client's roll number grows with
\* every spin).
MaxSpins == 2
\* Math.random() returns a multiple of 1/RandomScale.
RandomScale == 3
\* The draw taken alone: Math.random() and the final angle of the wheel are
\* multiples of 1/DrawScale (of a full turn), a pool has up to MaxPool players.
DrawScale == 20
MaxPool == 2

\* ------------------------------------------------------ program constants
MaxPlayers == 15
CountdownSeconds == 60
InitialRollNumber == 8343
\* null of currentGameId / of a player reference / of gameCountdown.
NoGame == 0
NoPlayer == 0
NoCountdown == -1
\* Player ids of the players outside Clients start after this number.
BackgroundBase == 100

VARIABLES
  \* the shared store
  games,              \* games table: row id = index
  game_participants,  \* game_participants rows of each game, in insertion order
  now,                \* the store's clock (seconds)
  \* one client's hook and component state
  currentGameId, dbPlayers, players, gameCountdown, isSpinning, winner,
  rollNumber, userInventory,
  \* positions of the asynchronous handlers of a client
  gc,                 \* getCurrentGame(rollNumber > 0) in flight (one call
                      \* per client: a newer call replaces the one in flight)
  join,               \* confirmGiftSelection in flight
  spin,               \* spinWheel and its two timeouts
  storeDown,          \* the store is unreachable: every call to it fails
  storeFailure,       \* per client, the game a store call of which has failed
  reload,             \* loadGameParticipants(gameId) in flight: the game id
                      \* it was called with and the rows the query returned
  \* the event log taken alone
  gameLog,            \* per client, the entries of the log, newest first; an
                      \* entry is the ordinal of its addToLog call
  logCount,           \* per client, the calls of addToLog so far
  \* the gifts of one player taken alone
  giftJoin,           \* one gift of the player: its quantity in the store and
                      \* in the client, the selection, the stake of the round
  \* the draw taken alone: one pool and one random value, drawn by every client
  drawPool,           \* the players of the wheel, in the order of the list
  drawRnd,            \* Math.random() of the draw, in units of 1/DrawScale
  drawRun,            \* what each client's run of the draw produced
  \* a join taken alone: the form one user filled in, and the local round
  stakeForm,          \* name, balance text and gift selection of the form
  stakeRound          \* the players list and the outcome of the handler

vars == <<games, game_participants, now, currentGameId, dbPlayers, players,
          gameCountdown, isSpinning, winner, rollNumber, userInventory,
          gc, join, spin, storeDown, storeFailure, reload,
          gameLog, logCount, giftJoin,
          drawPool, drawRnd, drawRun, stakeForm, stakeRound>>

drawVars == <<drawPool, drawRnd, drawRun>>
stakeVars == <<stakeForm, stakeRound>>
logVars == <<gameLog, logCount>>
sideVars == <<drawVars, stakeVars, reload, logVars, giftJoin>>
gameVars == <<games, game_participants, now, currentGameId, dbPlayers, players,
              gameCountdown, isSpinning, winner, rollNumber, userInventory,
              gc, join, spin, storeDown, storeFailure, reload,
              gameLog, logCount, giftJoin>>
outageVars == <<storeDown, storeFailure>>
gameVarsButReload == <<games, game_participants, now, currentGameId, dbPlayers,
                       players, gameCountdown, isSpinning, winner, rollNumber,
                       userInventory, gc, join, spin, storeDown, storeFailure,
                       giftJoin>>

\* ------------------------------------------------------------- helpers
Max(S) == CHOOSE x \in S : \A y \in S : y <= x

GameIds == 1..Len(games)

\* A games row as createGame inserts it.
NewGameRow(roll) ==
  [roll_number |-> roll, status |-> "waiting",
   countdown_ends_at |-> NoCountdown, winner_id |-> NoPlayer]

\* A game_participants row.
ParticipantRow(p, v, pos) ==
  [player_id |-> p, balance |-> 0, gift_value |-> v, position_index |-> pos]

\* The rounds a fetch of "the current waiting game" may return.
WaitingGames == {g \in GameIds : games[g].status = "waiting"}

\* dbHelpers.getCurrentGame(): the latest waiting game, or none.
DbGetCurrentGame == IF WaitingGames = {} THEN NoGame ELSE Max(WaitingGames)

\* participants.map(...) of getCurrentGame / loadGameParticipants: a store
\* row becomes a Player of the mirror.
TransformParticipants(rows) ==
  [i \in 1..Len(rows) |->
     [player_id |-> rows[i].player_id, balance |-> rows[i].balance,
      giftValue |-> rows[i].gift_value]]

\* The sync effect, had it added dbPlayers to the players it already shows.
SyncPlayersAppending(old, db) == old \o db
\* The effect "sync database players with local state": players follows
\* dbPlayers only when dbPlayers is not empty.
SyncPlayers(old, db) == IF Len(db) > 0 THEN db ELSE old

\* activePlayers of the component.
ActivePlayers(c) == IF Len(dbPlayers[c]) > 0 THEN dbPlayers[c] ELSE players[c]

HasPlayer(list, p) == \E i \in 1..Len(list) : list[i].player_id = p

IdleGc == [pc |-> "none", roll |-> 0, cont |-> "none"]
IdleJoin == [pc |-> "none", gameId |-> NoGame, capGameId |-> NoGame,
             len |-> 0, existing |-> FALSE, value |-> 0]
IdleSpin == [pc |-> "idle", gameId |-> NoGame, roll |-> 0,
             selectedWinner |-> NoPlayer]
IdleReload == [pc |-> "none", gameId |-> NoGame, rows |-> <<>>]
IdleRun == [pc |-> "ready", angle |-> 0, winner |-> NoPlayer,
            chance |-> <<0, 1>>]

\* ----------------------------------------------------------------- Init
\* Participants of players that are not among Clients (they joined at time 0).
PrefilledRows(n) ==
  [i \in 1..n |-> ParticipantRow(BackgroundBase + i, 1, i - 1)]

\* The waiting round such players left behind: with two or more of them the
\* countdown was started when the second joined.
PrefilledGame(n) ==
  [NewGameRow(InitialRollNumber) EXCEPT
     !.countdown_ends_at = IF n >= 2 THEN CountdownSeconds ELSE NoCountdown]

\* An earlier round, drawn and completed.
EarlierGame ==
  [NewGameRow(InitialRollNumber - 1) EXCEPT
     !.status = "completed", !.countdown_ends_at = 0,
     !.winner_id = BackgroundBase + 1]

\* The store the clients find: empty; or a waiting round with Prefill
\* participants; or an earlier round and a full waiting round.  Every client
\* has mounted, its player is initialised and the first
\* getCurrentGame(rollNumber) of initTelegram is on its way.
\* No form is filled in.
EmptyForm == [name |-> "", negative |-> FALSE, digits |-> <<>>, rest |-> "",
              giftValue |-> 0, quantity |-> 0]
IdleGiftJoin == [pc |-> "idle", initial |-> 0, stored |-> 0, local |-> 0,
                 hasRow |-> TRUE, reloaded |-> FALSE, quantity |-> 0,
                 stake |-> 0, localStake |-> 0, joins |-> 0]
StakeIdle ==
  /\ stakeForm = EmptyForm
  /\ stakeRound = [players |-> <<>>, outcome |-> "none"]
  /\ giftJoin = IdleGiftJoin

\* The client state right after the component mounted.
ClientInit ==
  /\ now = 0
  /\ currentGameId = [c \in Clients |-> NoGame]
  /\ dbPlayers = [c \in Clients |-> <<>>]
  /\ players = [c \in Clients |-> <<>>]
  /\ gameCountdown = [c \in Clients |-> NoCountdown]
  /\ isSpinning = [c \in Clients |-> FALSE]
  /\ winner = [c \in Clients |-> NoPlayer]
  /\ rollNumber = [c \in Clients |-> InitialRollNumber]
  /\ userInventory = [c \in Clients |-> InventoryUnits]
  /\ gc = [c \in Clients |-> [pc |-> "fetch", roll |-> InitialRollNumber,
                              cont |-> "none"]]
  /\ join = [c \in Clients |-> IdleJoin]
  /\ spin = [c \in Clients |-> IdleSpin]
  /\ storeDown = FALSE
  /\ storeFailure = [c \in Clients |-> NoGame]
  /\ reload = [c \in Clients |-> IdleReload]
  /\ gameLog = [c \in Clients |-> <<>>]
  /\ logCount = [c \in Clients |-> 0]

Init ==
  /\ \/ /\ games = <<>>
        /\ game_participants = <<>>
     \/ /\ Prefill \in 1..MaxPlayers
        /\ games = <<PrefilledGame(Prefill)>>
        /\ game_participants = <<PrefilledRows(Prefill)>>
     \/ /\ games = <<EarlierGame, PrefilledGame(MaxPlayers)>>
        /\ game_participants = <<PrefilledRows(2), PrefilledRows(MaxPlayers)>>
  /\ ClientInit
  /\ drawPool = <<>>
  /\ drawRnd = 0
  /\ drawRun = [c \in Clients |-> IdleRun]
  /\ StakeIdle

\* ------------------------------------------------------------ the clock
Tick ==
  /\ now + TickSeconds <= MaxNow
  /\ now' = now + TickSeconds
  /\ UNCHANGED <<games, game_participants, currentGameId, dbPlayers, players,
                 gameCountdown, isSpinning, winner, rollNumber, userInventory,
                 gc, join, spin>>
  /\ UNCHANGED outageVars
  /\ UNCHANGED sideVars

\* ------------------------------------------- getCurrentGame(rollNumber)
\* The fetch of getCurrentGame going on to createGame whatever the roll
\* number.
GcFetchWithoutRollTest(c) ==
  /\ ~storeDown
  /\ gc[c].pc = "fetch"
  /\ LET g == DbGetCurrentGame IN
       IF g # NoGame
         THEN LET db == TransformParticipants(game_participants[g]) IN
              /\ currentGameId' = [currentGameId EXCEPT ![c] = g]
              /\ dbPlayers' = [dbPlayers EXCEPT ![c] = db]
              /\ players' = [players EXCEPT ![c] = SyncPlayers(@, db)]
              /\ gc' = [gc EXCEPT ![c] = IdleGc]
              /\ join' = IF gc[c].cont = "join"
                           THEN [join EXCEPT ![c].pc = "store", ![c].gameId = g]
                           ELSE join
         ELSE /\ gc' = [gc EXCEPT ![c].pc = "create"]
              /\ UNCHANGED <<currentGameId, dbPlayers, players, join>>
  /\ UNCHANGED <<games, game_participants, now, gameCountdown, isSpinning,
                 winner, rollNumber, userInventory, spin>>
  /\ UNCHANGED outageVars
  /\ UNCHANGED sideVars
\* First half: the fetch of the current waiting game and, when there is one,
\* setCurrentGameId / setDbPlayers.  A caller that awaits the game (the join)
\* continues with it.  Without a waiting game the call goes on to createGame
\* only with a positive roll number (rollNumber && rollNumber > 0); with
\* rollNumber 0 it returns null.
GcFetch(c) ==
  /\ ~storeDown
  /\ gc[c].pc = "fetch"
  /\ LET g == DbGetCurrentGame IN
       IF g # NoGame
         THEN LET db == TransformParticipants(game_participants[g]) IN
              /\ currentGameId' = [currentGameId EXCEPT ![c] = g]
              /\ dbPlayers' = [dbPlayers EXCEPT ![c] = db]
              /\ players' = [players EXCEPT ![c] = SyncPlayers(@, db)]
              /\ gc' = [gc EXCEPT ![c] = IdleGc]
              /\ join' = IF gc[c].cont = "join"
                           THEN [join EXCEPT ![c].pc = "store", ![c].gameId = g]
                           ELSE join
         ELSE /\ gc' = IF gc[c].roll > 0
                          THEN [gc EXCEPT ![c].pc = "create"]
                          ELSE [gc EXCEPT ![c] = IdleGc]
              /\ UNCHANGED <<currentGameId, dbPlayers, players, join>>
  /\ UNCHANGED <<games, game_participants, now, gameCountdown, isSpinning,
                 winner, rollNumber, userInventory, spin>>
  /\ UNCHANGED outageVars
  /\ UNCHANGED sideVars

\* Second half: no waiting game was found and the roll number is positive:
\* dbHelpers.createGame(rollNumber), then setCurrentGameId / setDbPlayers([]).
GcCreate(c) ==
  /\ ~storeDown
  /\ gc[c].pc = "create"
  /\ Len(games) < MaxGames
  /\ LET g == Len(games) + 1 IN
       /\ games' = Append(games, NewGameRow(gc[c].roll))
       /\ game_participants' = Append(game_participants, <<>>)
       /\ currentGameId' = [currentGameId EXCEPT ![c] = g]
       /\ dbPlayers' = [dbPlayers EXCEPT ![c] = <<>>]
       /\ gc' = [gc EXCEPT ![c] = IdleGc]
       /\ join' = IF gc[c].cont = "join"
                    THEN [join EXCEPT ![c].pc = "store", ![c].gameId = g]
                    ELSE join
  /\ UNCHANGED <<now, players, gameCountdown, isSpinning, winner, rollNumber,
                 userInventory, spin>>
  /\ UNCHANGED outageVars
  /\ UNCHANGED sideVars

\* --------------------------------------------- reloads of the mirror
\* getCurrentGame(0), as the mount effect and the games subscriptions call
\* it: the fetch alone, nothing is created.
LoadGame(c) ==
  /\ ~storeDown
  /\ DbGetCurrentGame # NoGame
  /\ LET g == DbGetCurrentGame
         db == TransformParticipants(game_participants[g]) IN
       /\ currentGameId' = [currentGameId EXCEPT ![c] = g]
       /\ dbPlayers' = [dbPlayers EXCEPT ![c] = db]
       /\ players' = [players EXCEPT ![c] = SyncPlayers(@, db)]
  /\ UNCHANGED <<games, game_participants, now, gameCountdown, isSpinning,
                 winner, rollNumber, userInventory, gc, join, spin>>
  /\ UNCHANGED outageVars
  /\ UNCHANGED sideVars

\* .order('position_index') of loadGameParticipants; rows with the same
\* position keep their insertion order.
InsertByPosition(rest, r) ==
  LET k == Cardinality({i \in 1..Len(rest) :
                          rest[i].position_index <= r.position_index})
  IN SubSeq(rest, 1, k) \o <<r>> \o SubSeq(rest, k + 1, Len(rest))

\* The first n rows, sorted; the sorted prefix is bound to a value before the
\* next row is inserted.
RECURSIVE SortPrefix(_, _)
SortPrefix(rows, n) ==
  IF n = 0 THEN <<>>
  ELSE CHOOSE sorted \in
         {InsertByPosition(rest, rows[n]) :
            rest \in {SortPrefix(rows, n - 1)}} : TRUE

SortByPosition(rows) == SortPrefix(rows, Len(rows))

\* loadGameParticipants(currentGameId), as the game_participants
\* subscription calls it.
LoadParticipants(c) ==
  /\ ~storeDown
  /\ currentGameId[c] # NoGame
  /\ \E rows \in {SortByPosition(game_participants[currentGameId[c]])} :
       LET db == TransformParticipants(rows) IN
         /\ dbPlayers' = [dbPlayers EXCEPT ![c] = db]
         /\ players' = [players EXCEPT ![c] = SyncPlayers(@, db)]
  /\ UNCHANGED <<games, game_participants, now, currentGameId, gameCountdown,
                 isSpinning, winner, rollNumber, userInventory, gc, join, spin>>
  /\ UNCHANGED outageVars
  /\ UNCHANGED sideVars

\* dbHelpers.getGameCountdown(gameId): seconds left, null without a countdown.
DbGetGameCountdown(g) ==
  IF games[g].countdown_ends_at = NoCountdown THEN NoCountdown
  ELSE IF games[g].countdown_ends_at <= now THEN 0
  ELSE games[g].countdown_ends_at - now

\* One tick of the countdown timer effect: it runs while there is a current
\* game with two or more dbPlayers; getGameCountdown stores what it read.
PollCountdown(c) ==
  /\ ~storeDown
  /\ currentGameId[c] # NoGame
  /\ Len(dbPlayers[c]) >= 2
  /\ gameCountdown' =
       [gameCountdown EXCEPT ![c] = DbGetGameCountdown(currentGameId[c])]
  /\ UNCHANGED <<games, game_participants, now, currentGameId, dbPlayers,
                 players, isSpinning, winner, rollNumber, userInventory, gc,
                 join, spin>>
  /\ UNCHANGED outageVars
  /\ UNCHANGED sideVars

\* ------------------------------------------------ confirmGiftSelection
HasRow(g, p) ==
  \E i \in 1..Len(game_participants[g]) : game_participants[g][i].player_id = p

\* joinGame without the limit of MaxPlayers participants.
DbJoinResultWithoutLimit(g, p) ==
  IF games[g].status # "waiting" THEN "not_open" ELSE "ok"

\* dbHelpers.joinGame: the outcome of joinRound.  A player who is in the
\* round adds stake; a new one is refused by a full round; nobody joins a
\* round that is not waiting.
DbJoinResult(g, p) ==
  IF games[g].status # "waiting" THEN "not_open"
  ELSE IF HasRow(g, p) THEN "ok"
  ELSE IF Len(game_participants[g]) >= MaxPlayers THEN "full"
  ELSE "ok"

\* The rows of the round after an accepted join.
DbJoinRows(g, p, v, pos) ==
  IF HasRow(g, p)
    THEN [i \in 1..Len(game_participants[g]) |->
            IF game_participants[g][i].player_id = p
              THEN [game_participants[g][i] EXCEPT !.gift_value = @ + v]
              ELSE game_participants[g][i]]
    ELSE Append(game_participants[g], ParticipantRow(p, v, pos))

\* dbHelpers.startGameCountdown(gameId, seconds): sets the deadline of a
\* round that has none.
DbStartGameCountdown(g, seconds) ==
  IF games[g].countdown_ends_at = NoCountdown
    THEN [games EXCEPT ![g].countdown_ends_at = now + seconds]
    ELSE games

\* The click: the guards, and the values the handler captured from its
\* render.  Without a current game it first awaits getCurrentGame(rollNumber).
JoinStart(c, q) ==
  /\ join[c].pc = "none"
  /\ q \in 1..userInventory[c]
  /\ Len(players[c]) < MaxPlayers
  /\ LET captured == [IdleJoin EXCEPT !.capGameId = currentGameId[c],
                                      !.len = Len(players[c]),
                                      !.existing = HasPlayer(players[c], c),
                                      !.value = q] IN
       IF currentGameId[c] = NoGame
         THEN /\ gc' = [gc EXCEPT ![c] = [pc |-> "fetch",
                                          roll |-> rollNumber[c],
                                          cont |-> "join"]]
              /\ join' = [join EXCEPT ![c] = [captured EXCEPT !.pc = "game"]]
         ELSE /\ join' = [join EXCEPT ![c] =
                            [captured EXCEPT !.pc = "store",
                                             !.gameId = currentGameId[c]]]
              /\ UNCHANGED gc
  /\ UNCHANGED <<games, game_participants, now, currentGameId, dbPlayers,
                 players, gameCountdown, isSpinning, winner, rollNumber,
                 userInventory, spin>>
  /\ UNCHANGED outageVars
  /\ UNCHANGED sideVars

\* joinGameWithGifts: the store decides; a refusal returns null and the
\* handler goes on with the local logic.
JoinStore(c) ==
  /\ ~storeDown
  /\ join[c].pc = "store"
  /\ LET g == join[c].gameId
         res == DbJoinResult(g, c) IN
       /\ game_participants' =
            IF res = "ok"
              THEN [game_participants EXCEPT
                      ![g] = DbJoinRows(g, c, join[c].value, join[c].len)]
              ELSE game_participants
       /\ join' = [join EXCEPT ![c].pc = "local"]
  /\ UNCHANGED <<games, now, currentGameId, dbPlayers, players, gameCountdown,
                 isSpinning, winner, rollNumber, userInventory, gc, spin>>
  /\ UNCHANGED outageVars
  /\ UNCHANGED sideVars

\* "Local game logic (always run for immediate UI feedback)": the branch is
\* chosen with the captured players, the update reads the latest players; a
\* new player who found exactly one player starts the countdown of the
\* captured game.
JoinLocal(c) ==
  /\ join[c].pc = "local"
  /\ IF join[c].existing
       THEN /\ players' = [players EXCEPT ![c] =
                 [i \in 1..Len(@) |->
                    IF @[i].player_id = c
                      THEN [@[i] EXCEPT !.giftValue = @ + join[c].value]
                      ELSE @[i]]]
            /\ UNCHANGED games
       ELSE /\ players' = [players EXCEPT ![c] =
                 Append(@, [player_id |-> c, balance |-> 0,
                            giftValue |-> join[c].value])]
            /\ games' = IF join[c].len = 1 /\ join[c].capGameId # NoGame
                             /\ ~storeDown
                          THEN DbStartGameCountdown(join[c].capGameId,
                                                    CountdownSeconds)
                          ELSE games
  /\ userInventory' = [userInventory EXCEPT ![c] = @ - join[c].value]
  /\ join' = [join EXCEPT ![c] = IdleJoin]
  /\ UNCHANGED <<game_participants, now, currentGameId, dbPlayers,
                 gameCountdown, isSpinning, winner, rollNumber, gc, spin>>
  /\ storeFailure' =
       IF storeDown /\ ~join[c].existing /\ join[c].len = 1
          /\ join[c].capGameId # NoGame
         THEN [storeFailure EXCEPT ![c] = join[c].capGameId]
         ELSE storeFailure
  /\ UNCHANGED storeDown
  /\ UNCHANGED sideVars

\* ------------------------------------------------------------ spinWheel
RECURSIVE TotalValue(_)
TotalValue(pool) ==
  IF pool = <<>> THEN 0
  ELSE pool[1].balance + pool[1].giftValue + TotalValue(Tail(pool))

\* balance + giftValue of one player of the pool.
PlayerValue(player) == player.balance + player.giftValue

\* The winner selection loop with the test made before the player's value is
\* added to currentSum.
RECURSIVE WalkPoolTestBeforeAdd(_, _, _, _, _, _)
WalkPoolTestBeforeAdd(pool, i, currentSum, rnd, total, scale) ==
  IF i > Len(pool) THEN NoPlayer
  ELSE LET sum == currentSum + PlayerValue(pool[i]) IN
       IF rnd * total <= scale * currentSum
         THEN pool[i].player_id
         ELSE WalkPoolTestBeforeAdd(pool, i + 1, sum, rnd, total, scale)
\* The winner selection loop: walk the pool in its order, add each player's
\* value to currentSum and stop at the first player with
\* randomValue <= currentSum, where randomValue = (rnd / scale) * total.
RECURSIVE WalkPool(_, _, _, _, _, _)
WalkPool(pool, i, currentSum, rnd, total, scale) ==
  IF i > Len(pool) THEN NoPlayer
  ELSE LET sum == currentSum + PlayerValue(pool[i]) IN
       IF rnd * total <= scale * sum
         THEN pool[i].player_id
         ELSE WalkPool(pool, i + 1, sum, rnd, total, scale)

SelectWinner(pool, rnd) ==
  WalkPool(pool, 1, 0, rnd, TotalValue(pool), RandomScale)

\* Whether the store's deadline of round g has been reached.
DeadlineReached(g) ==
  /\ games[g].countdown_ends_at # NoCountdown
  /\ games[g].countdown_ends_at <= now

\* The spins started so far: every finished spin incremented the roll number
\* of its client.
RECURSIVE SpinsStarted(_)
SpinsStarted(S) ==
  IF S = {} THEN 0
  ELSE LET c == CHOOSE x \in S : TRUE IN
       (rollNumber[c] - InitialRollNumber)
       + (IF spin[c].pc = "spun" THEN 1 ELSE 0)
       + SpinsStarted(S \ {c})

\* The auto-spin effect calling spinWheel: gameCountdown is 0, no spin is
\* running and there are two or more active players.  spinWheel sets
\* isSpinning, draws the winner from the active players it sees and arms the
\* SPIN_DURATION timeout; the timeouts keep the game id and the roll number
\* of this render.
SpinStart(c) ==
  /\ SpinsStarted(Clients) < MaxSpins
  /\ gameCountdown[c] = 0
  /\ ~isSpinning[c]
  /\ Len(ActivePlayers(c)) >= 2
  /\ \E rnd \in 0..(RandomScale - 1) :
       spin' = [spin EXCEPT ![c] =
                  [pc |-> "spun", gameId |-> currentGameId[c],
                   roll |-> rollNumber[c],
                   selectedWinner |-> SelectWinner(ActivePlayers(c), rnd)]]
  /\ isSpinning' = [isSpinning EXCEPT ![c] = TRUE]
  /\ UNCHANGED <<games, game_participants, now, currentGameId, dbPlayers,
                 players, gameCountdown, winner, rollNumber, userInventory,
                 gc, join>>
  /\ storeFailure' =
       IF storeDown /\ currentGameId[c] # NoGame
         THEN [storeFailure EXCEPT ![c] = currentGameId[c]]
         ELSE storeFailure
  /\ UNCHANGED storeDown
  /\ UNCHANGED sideVars

\* dbHelpers.updateGameStatus(gameId, 'completed', {winner_id, ...}) as the
\* compare-and-set of the storage boundary: it writes only a round that is
\* still waiting.
DbUpdateGameStatus(g, status, winnerId) ==
  IF games[g].status = "waiting"
    THEN [games EXCEPT ![g].status = status, ![g].winner_id = winnerId]
    ELSE games

\* The SPIN_DURATION timeout: completeGame(currentGameId, currentPlayer.id,
\* ...) for the captured game, then the winner is shown and the roll number
\* incremented.  The new roll number re-runs the initTelegram effect, which
\* calls getCurrentGame(rollNumber) again.
SpinSettle(c) ==
  /\ spin[c].pc = "spun"
  /\ games' = IF spin[c].selectedWinner # NoPlayer /\ spin[c].gameId # NoGame
                  /\ ~storeDown
                THEN DbUpdateGameStatus(spin[c].gameId, "completed", c)
                ELSE games
  /\ IF spin[c].selectedWinner # NoPlayer
       THEN /\ winner' = [winner EXCEPT ![c] = spin[c].selectedWinner]
            /\ rollNumber' = [rollNumber EXCEPT ![c] = @ + 1]
            /\ gc' = [gc EXCEPT ![c] = [pc |-> "fetch",
                                        roll |-> rollNumber[c] + 1,
                                        cont |-> "none"]]
       ELSE UNCHANGED <<winner, rollNumber, gc>>
  /\ spin' = [spin EXCEPT ![c].pc = "shown"]
  /\ UNCHANGED <<game_participants, now, currentGameId, dbPlayers, players,
                 gameCountdown, isSpinning, userInventory, join>>
  /\ storeFailure' =
       IF storeDown /\ spin[c].selectedWinner # NoPlayer
          /\ spin[c].gameId # NoGame
         THEN [storeFailure EXCEPT ![c] = spin[c].gameId]
         ELSE storeFailure
  /\ UNCHANGED storeDown
  /\ UNCHANGED sideVars

\* The 3000 ms timeout: the spin state is reset and the next round is asked
\* for with the captured roll number + 1.
SpinReset(c) ==
  /\ spin[c].pc = "shown"
  /\ isSpinning' = [isSpinning EXCEPT ![c] = FALSE]
  /\ players' = [players EXCEPT ![c] = <<>>]
  /\ winner' = [winner EXCEPT ![c] = NoPlayer]
  /\ gc' = [gc EXCEPT ![c] = [pc |-> "fetch", roll |-> spin[c].roll + 1,
                              cont |-> "none"]]
  /\ spin' = [spin EXCEPT ![c] = IdleSpin]
  /\ UNCHANGED <<games, game_participants, now, currentGameId, dbPlayers,
                 gameCountdown, rollNumber, userInventory, join>>
  /\ UNCHANGED outageVars
  /\ UNCHANGED sideVars

Next ==
  \/ Tick
  \/ \E c \in Clients : GcFetch(c)
  \/ \E c \in Clients : GcCreate(c)
  \/ \E c \in Clients : LoadGame(c)
  \/ \E c \in Clients : LoadParticipants(c)
  \/ \E c \in Clients : PollCountdown(c)
  \/ \E c \in Clients : \E q \in 1..InventoryUnits : JoinStart(c, q)
  \/ \E c \in Clients : JoinStore(c)
  \/ \E c \in Clients : JoinLocal(c)
  \/ \E c \in Clients : SpinStart(c)
  \/ \E c \in Clients : SpinSettle(c)
  \/ \E c \in Clients : SpinReset(c)

Spec == Init /\ [][Next]_vars

\* The clients on an empty store, with fairness: timers fire, store calls
\* return and notifications arrive, so every step of every handler that stays
\* possible is eventually taken (a click is never forced).
InitEmpty == Init /\ games = <<>>

FairSpec ==
  /\ InitEmpty
  /\ [][Next]_vars
  /\ WF_vars(Tick)
  /\ \A c \in Clients :
       /\ WF_vars(GcFetch(c)) /\ WF_vars(GcCreate(c))
       /\ WF_vars(LoadGame(c)) /\ WF_vars(LoadParticipants(c))
       /\ WF_vars(PollCountdown(c))
       /\ WF_vars(JoinStore(c)) /\ WF_vars(JoinLocal(c))
       /\ WF_vars(SpinStart(c)) /\ WF_vars(SpinSettle(c))
       /\ WF_vars(SpinReset(c))

\* ------------------------------------------------- load-only fetches
\* getCurrentGame(0) as a call in flight: the loadCurrentGame effect of a
\* client without a current game and the handlers of the games subscriptions
\* call it whatever the store holds.
LoadCurrentGame(c) ==
  /\ gc[c].pc = "none"
  /\ gc' = [gc EXCEPT ![c] = [pc |-> "fetch", roll |-> 0, cont |-> "none"]]
  /\ UNCHANGED <<games, game_participants, now, currentGameId, dbPlayers,
                 players, gameCountdown, isSpinning, winner, rollNumber,
                 userInventory, join, spin>>
  /\ UNCHANGED outageVars
  /\ UNCHANGED sideVars

LoadOnlyNext ==
  \/ Next
  \/ \E c \in Clients : LoadCurrentGame(c)

LoadOnlySpec == InitEmpty /\ [][LoadOnlyNext]_vars

\* A client that abandons the round: client Abandoner may stop at any point
\* (nothing it does is ever forced: its timers, its handlers and the answers
\* to its calls may never come), while the timers and handlers of the other
\* clients go on.
Abandoner == 2

AbandonFairSpec ==
  /\ InitEmpty
  /\ [][Next]_vars
  /\ WF_vars(Tick)
  /\ \A c \in Clients \ {Abandoner} :
       /\ WF_vars(GcFetch(c)) /\ WF_vars(GcCreate(c))
       /\ WF_vars(LoadGame(c)) /\ WF_vars(LoadParticipants(c))
       /\ WF_vars(PollCountdown(c))
       /\ WF_vars(JoinStore(c)) /\ WF_vars(JoinLocal(c))
       /\ WF_vars(SpinStart(c)) /\ WF_vars(SpinSettle(c))
       /\ WF_vars(SpinReset(c))

\* ------------------------------------------------- the store unreachable
\* The store becomes unreachable and stays so: from then on every call to it
\* returns an error.  A failed read (getGameCountdown, loadGameParticipants,
\* getCurrentGame(0)) returns without touching the mirror.
StoreFails ==
  /\ ~storeDown
  /\ storeDown' = TRUE
  /\ UNCHANGED <<games, game_participants, now, currentGameId, dbPlayers,
                 players, gameCountdown, isSpinning, winner, rollNumber,
                 userInventory, gc, join, spin, storeFailure>>
  /\ UNCHANGED sideVars

\* getCurrentGame(rollNumber) on a store error (the fetch or the create):
\* setError and return null.  confirmGiftSelection, waiting for the game,
\* alerts 'Failed to create game' and returns before its local logic.
GcFails(c) ==
  /\ storeDown
  /\ gc[c].pc \in {"fetch", "create"}
  /\ gc' = [gc EXCEPT ![c] = IdleGc]
  /\ join' = IF gc[c].cont = "join" THEN [join EXCEPT ![c] = IdleJoin]
                                    ELSE join
  /\ UNCHANGED <<games, game_participants, now, currentGameId, dbPlayers,
                 players, gameCountdown, isSpinning, winner, rollNumber,
                 userInventory, spin, storeDown, storeFailure>>
  /\ UNCHANGED sideVars

\* joinGameWithGifts on a store error: setError and return null; the handler
\* goes on with the local logic.
JoinStoreFails(c) ==
  /\ storeDown
  /\ join[c].pc = "store"
  /\ join' = [join EXCEPT ![c].pc = "local"]
  /\ storeFailure' = [storeFailure EXCEPT ![c] = join[c].gameId]
  /\ UNCHANGED <<games, game_participants, now, currentGameId, dbPlayers,
                 players, gameCountdown, isSpinning, winner, rollNumber,
                 userInventory, gc, spin, storeDown>>
  /\ UNCHANGED sideVars

OutageNext ==
  \/ Next
  \/ StoreFails
  \/ \E c \in Clients : GcFails(c)
  \/ \E c \in Clients : JoinStoreFails(c)

OutageSpec == InitEmpty /\ [][OutageNext]_vars

\* The same with fairness: timers fire and calls return, with an error once
\* the store is unreachable; neither a click nor the outage is ever forced.
OutageFairSpec ==
  /\ OutageSpec
  /\ WF_vars(Tick)
  /\ \A c \in Clients :
       /\ WF_vars(GcFetch(c)) /\ WF_vars(GcCreate(c)) /\ WF_vars(GcFails(c))
       /\ WF_vars(LoadGame(c)) /\ WF_vars(LoadParticipants(c))
       /\ WF_vars(PollCountdown(c))
       /\ WF_vars(JoinStore(c)) /\ WF_vars(JoinStoreFails(c))
       /\ WF_vars(JoinLocal(c))
       /\ WF_vars(SpinStart(c)) /\ WF_vars(SpinSettle(c))
       /\ WF_vars(SpinReset(c))

\* ------------------------------------------------ reloads in flight
\* Reloads in flight at a time, over all clients.
MaxReloads == 1

\* loadGameParticipants(gameId) in two steps.  The game_participants
\* notification calls it with the currentGameId of the render that subscribed;
\* the query is answered with the rows of that game.
ReloadStart(c) ==
  /\ ~storeDown
  /\ reload[c].pc = "none"
  /\ Cardinality({d \in Clients : reload[d].pc = "sent"}) < MaxReloads
  /\ currentGameId[c] # NoGame
  /\ \E rows \in {SortByPosition(game_participants[currentGameId[c]])} :
       reload' = [reload EXCEPT ![c] = [pc |-> "sent",
                                        gameId |-> currentGameId[c],
                                        rows |-> rows]]
  /\ UNCHANGED <<gameVarsButReload, drawVars, stakeVars, logVars>>

\* The answer arrives: setDbPlayers(transformedPlayers), whatever the current
\* game of the client is by now, and the sync effect.
ReloadDone(c) ==
  /\ reload[c].pc = "sent"
  /\ LET db == TransformParticipants(reload[c].rows) IN
       /\ dbPlayers' = [dbPlayers EXCEPT ![c] = db]
       /\ players' = [players EXCEPT ![c] = SyncPlayers(@, db)]
  /\ reload' = [reload EXCEPT ![c] = IdleReload]
  /\ UNCHANGED <<games, game_participants, now, currentGameId, gameCountdown,
                 isSpinning, winner, rollNumber, userInventory, gc, join, spin>>
  /\ UNCHANGED outageVars
  /\ UNCHANGED <<drawVars, stakeVars, logVars, giftJoin>>

\* The handlers that write the mirror, while no deadline is reached: the
\* clock stands still and no draw starts.
ReloadNext ==
  \/ \E c \in Clients : GcFetch(c)
  \/ \E c \in Clients : GcCreate(c)
  \/ \E c \in Clients : LoadGame(c)
  \/ \E c \in Clients : LoadParticipants(c)
  \/ \E c \in Clients : \E q \in 1..InventoryUnits : JoinStart(c, q)
  \/ \E c \in Clients : JoinStore(c)
  \/ \E c \in Clients : JoinLocal(c)
  \/ \E c \in Clients : ReloadStart(c)
  \/ \E c \in Clients : ReloadDone(c)

ReloadSpec == InitEmpty /\ [][ReloadNext]_vars

\* ------------------------------------------------ the event log alone
\* Calls of addToLog per client.
MaxLogged == 21
\* prev.slice(0, 19): the entries of the log that addToLog keeps.
LogKept == 19

\* addToLog(message, type): setGameLog((prev) => [newLog, ...prev.slice(0, 19)]).
AddToLog(c) ==
  /\ logCount[c] < MaxLogged
  /\ logCount' = [logCount EXCEPT ![c] = @ + 1]
  /\ gameLog' = [gameLog EXCEPT ![c] =
                   <<logCount[c] + 1>>
                     \o SubSeq(@, 1, IF Len(@) < LogKept THEN Len(@)
                                                         ELSE LogKept)]
  /\ UNCHANGED <<gameVarsButReload, reload, drawVars, stakeVars>>

LogNext == \E c \in Clients : AddToLog(c)

LogSpec == InitEmpty /\ [][LogNext]_vars

\* ------------------------------------------------------ the draw alone
\* The draw as a function of its inputs: every pool of up to MaxPool players
\* and every random value, drawn by each client with spinWheel or with the
\* handleSpin / animateSpin pair of the useGameState version of the component.
DrawBalances == {0, 5}
DrawGiftValues == {5, 10, 90}

DrawPools ==
  UNION {{[i \in 1..n |-> [player_id |-> i, balance |-> f[i][1],
                           giftValue |-> f[i][2]]] :
            f \in [1..n -> DrawBalances \X DrawGiftValues]} : n \in 1..MaxPool}

DrawInit ==
  /\ games = <<>>
  /\ game_participants = <<>>
  /\ ClientInit
  /\ drawPool \in DrawPools
  /\ drawRnd \in 0..(DrawScale - 1)
  /\ drawRun = [c \in Clients |-> IdleRun]
  /\ StakeIdle

\* The player of the pool with the given id.
PoolPlayer(pool, id) == CHOOSE i \in 1..Len(pool) : pool[i].player_id = id

\* winnerChance = (playerValue / totalValue) * 100 for the gift value alone.
WinnerChanceOfGifts(pool, id) ==
  <<100 * pool[PoolPlayer(pool, id)].giftValue, TotalValue(pool)>>
\* winnerChance = (playerValue / totalValue) * 100, as the fraction
\* <<numerator, denominator>>.
WinnerChance(pool, id) ==
  <<100 * PlayerValue(pool[PoolPlayer(pool, id)]), TotalValue(pool)>>

\* drawWheel: segmentAngle = (playerValue / totalValue) * 2 * Math.PI, as the
\* fraction <<numerator, denominator>> of a full turn.
SegmentShare(pool, i) == <<PlayerValue(pool[i]), TotalValue(pool)>>

\* spinWheel on the pool: nothing below two players; the selection loop, and
\* winnerChance when a winner was selected.
DrawSpinWheel(c) ==
  /\ drawRun[c].pc = "ready"
  /\ Len(drawPool) >= 2
  /\ LET selectedWinner ==
           WalkPool(drawPool, 1, 0, drawRnd, TotalValue(drawPool), DrawScale)
     IN drawRun' = [drawRun EXCEPT ![c] =
          [pc |-> "spun", angle |-> 0, winner |-> selectedWinner,
           chance |-> IF selectedWinner = NoPlayer THEN <<0, 1>>
                      ELSE WinnerChance(drawPool, selectedWinner)]]
  /\ UNCHANGED <<drawPool, drawRnd>>
  /\ UNCHANGED gameVars
  /\ UNCHANGED stakeVars

\* The result of the useGameState hook's spinWheel(gameId).
GameStateSpinWheel(pool, rnd) ==
  WalkPool(pool, 1, 0, rnd, TotalValue(pool), DrawScale)

\* animateSpin's loop over the slices of the wheel: the winner is the player
\* whose slice [startAngle, endAngle) holds the final angle, angle / scale of
\* a full turn.
RECURSIVE WalkSlices(_, _, _, _, _, _)
WalkSlices(pool, i, startSum, angle, total, scale) ==
  IF i > Len(pool) THEN NoPlayer
  ELSE LET endSum == startSum + PlayerValue(pool[i]) IN
       IF angle * total >= scale * startSum /\ angle * total < scale * endSum
         THEN pool[i].player_id
         ELSE WalkSlices(pool, i + 1, endSum, angle, total, scale)

\* handleSpin followed by the animation: the hook's result only decides
\* whether the wheel is animated; finalAngle is a fresh Math.random() and the
\* winner shown is the one animateSpin reads from the final angle.
DrawAnimateSpin(c) ==
  /\ drawRun[c].pc = "ready"
  /\ Len(drawPool) > 0
  /\ GameStateSpinWheel(drawPool, drawRnd) # NoPlayer
  /\ \E finalAngle \in 0..(DrawScale - 1) :
       drawRun' = [drawRun EXCEPT ![c] =
         [pc |-> "animated", angle |-> finalAngle,
          winner |-> WalkSlices(drawPool, 1, 0, finalAngle,
                                TotalValue(drawPool), DrawScale),
          chance |-> <<0, 1>>]]
  /\ UNCHANGED <<drawPool, drawRnd>>
  /\ UNCHANGED gameVars
  /\ UNCHANGED stakeVars

DrawNext == \E c \in Clients : DrawSpinWheel(c) \/ DrawAnimateSpin(c)

DrawSpec == DrawInit /\ [][DrawNext]_vars

\* The draw on pools that may be empty or hold players without weight: a
\* gift whose base value is missing counts 0 (item.gifts?.base_value || 0,
\* participant.gift_value || 0).
ZeroGiftValues == {0, 5}

ZeroPools ==
  UNION {{[i \in 1..n |-> [player_id |-> i, balance |-> 0,
                           giftValue |-> f[i]]] :
            f \in [1..n -> ZeroGiftValues]} : n \in 0..MaxPool}

ZeroDrawInit ==
  /\ games = <<>>
  /\ game_participants = <<>>
  /\ ClientInit
  /\ drawPool \in ZeroPools
  /\ drawRnd \in 0..(DrawScale - 1)
  /\ drawRun = [c \in Clients |-> IdleRun]
  /\ StakeIdle

ZeroDrawSpec == ZeroDrawInit /\ [][DrawNext]_vars

\* ------------------------------------------------------- a join alone
\* addPlayer and the local logic of confirmGiftSelection as functions of the
\* form: the name, the text of the balance field (a sign, leading digits and
\* what follows them), the base value of the selected gift in tenths of a TON
\* and the selected quantity.
FormNames == {"", "ann", "bob"}
FormDigits == {<<>>, <<0>>, <<1>>, <<5>>, <<9>>, <<1, 0>>,
               <<1, 0, 0, 0, 0>>, <<1, 0, 0, 0, 1>>}
FormRests == {"", ".5", "abc"}
FormGiftValues == {0, 1}
MaxQuantity == 2
MinBalance == 1
MaxBalance == 10000
MinRandomGift == 1
MaxRandomGift == 5

\* The local round the form is submitted to: empty, or holding ann.
StakeRounds ==
  {<<>>, <<[name |-> "ann", balance |-> 0, giftValue |-> 1]>>}

StakeInit ==
  /\ games = <<>>
  /\ game_participants = <<>>
  /\ ClientInit
  /\ drawPool = <<>>
  /\ drawRnd = 0
  /\ drawRun = [c \in Clients |-> IdleRun]
  /\ stakeForm \in [name : FormNames, negative : BOOLEAN,
                     digits : FormDigits, rest : FormRests,
                     giftValue : FormGiftValues, quantity : 0..MaxQuantity]
  /\ stakeRound \in [players : StakeRounds, outcome : {"none"}]
  /\ giftJoin = IdleGiftJoin

\* The number written by a sequence of decimal digits.
RECURSIVE DigitsValue(_)
DigitsValue(digits) ==
  IF digits = <<>> THEN 0
  ELSE 10 * DigitsValue(SubSeq(digits, 1, Len(digits) - 1))
       + digits[Len(digits)]

\* Number.parseInt of the text: NaN without leading digits, else the integer
\* the sign and the digits write; what follows the digits is dropped.
ParseInt(form) ==
  [isNaN |-> form.digits = <<>>,
   value |-> IF form.negative THEN 0 - DigitsValue(form.digits)
             ELSE DigitsValue(form.digits)]

HasName(list, name) == \E i \in 1..Len(list) : list[i].name = name

\* addPlayer's first guard: !name || !balance || balance < 1 || balance > 10000.
AddPlayerRefuses(name, balance) ==
  name = "" \/ balance.isNaN \/ balance.value = 0
  \/ balance.value < MinBalance \/ balance.value > MaxBalance

\* addPlayer: the guards, then the new player with the parsed balance and a
\* random gift value between 0.1 and 0.6 TON.
AddPlayer ==
  /\ stakeRound.outcome = "none"
  /\ LET name == stakeForm.name
         balance == ParseInt(stakeForm) IN
       IF \/ AddPlayerRefuses(name, balance)
          \/ HasName(stakeRound.players, name)
          \/ Len(stakeRound.players) >= MaxPlayers
         THEN stakeRound' = [stakeRound EXCEPT !.outcome = "refused"]
         ELSE \E gift \in MinRandomGift..MaxRandomGift :
                stakeRound' =
                  [players |-> Append(stakeRound.players,
                                      [name |-> name,
                                       balance |-> balance.value,
                                       giftValue |-> gift]),
                   outcome |-> "balance"]
  /\ UNCHANGED stakeForm
  /\ UNCHANGED gameVars
  /\ UNCHANGED drawVars

\* confirmGiftSelection seen from the local round: the guards (a gift is
\* selected, a name, fewer than 15 players), totalGiftValue = value *
\* quantity, then the stake is added to the player of that name or a new
\* player joins with balance 0.
ConfirmGiftSelection ==
  /\ stakeRound.outcome = "none"
  /\ LET name == stakeForm.name
         totalGiftValue == stakeForm.giftValue * stakeForm.quantity IN
       IF \/ stakeForm.quantity = 0
          \/ name = ""
          \/ Len(stakeRound.players) >= MaxPlayers
         THEN stakeRound' = [stakeRound EXCEPT !.outcome = "refused"]
         ELSE stakeRound' =
                [players |->
                   IF HasName(stakeRound.players, name)
                     THEN [i \in 1..Len(stakeRound.players) |->
                             IF stakeRound.players[i].name = name
                               THEN [stakeRound.players[i] EXCEPT
                                       !.giftValue = @ + totalGiftValue]
                               ELSE stakeRound.players[i]]
                     ELSE Append(stakeRound.players,
                                 [name |-> name, balance |-> 0,
                                  giftValue |-> totalGiftValue]),
                 outcome |-> "gifts"]
  /\ UNCHANGED stakeForm
  /\ UNCHANGED gameVars
  /\ UNCHANGED drawVars

StakeNext == AddPlayer \/ ConfirmGiftSelection

StakeSpec == StakeInit /\ [][StakeNext]_vars

\* ------------------------------------------------ the gifts of a join
\* One player and one gift: the quantity the store holds for the player
\* (player_gifts), the quantity the client shows (userInventory), the gifts
\* of the player's row of the round in the store and of the player's entry in
\* the local players list.
MaxInventory == 3
\* Gift joins of the player.
MaxGiftJoins == 2

\* The inventory has been loaded: the client shows what the store holds.
InventoryInit ==
  /\ games = <<>>
  /\ game_participants = <<>>
  /\ ClientInit
  /\ drawPool = <<>>
  /\ drawRnd = 0
  /\ drawRun = [c \in Clients |-> IdleRun]
  /\ stakeForm = EmptyForm
  /\ stakeRound = [players |-> <<>>, outcome |-> "none"]
  /\ \E n \in 1..MaxInventory :
       giftJoin = [IdleGiftJoin EXCEPT !.pc = "form", !.initial = n,
                                       !.stored = n, !.local = n]

inventoryFrame == <<games, game_participants, now, currentGameId, dbPlayers,
                    players, gameCountdown, isSpinning, winner, rollNumber,
                    userInventory, gc, join, spin, storeDown, storeFailure,
                    reload, logVars, drawVars, stakeVars>>

\* handleGiftSelection / selectAllGifts: a quantity of the gift the client
\* shows is selected.
HandleGiftSelection(q) ==
  /\ giftJoin.pc = "form"
  /\ giftJoin.joins < MaxGiftJoins
  /\ q \in 1..giftJoin.local
  /\ giftJoin' = [giftJoin EXCEPT !.pc = "selected", !.quantity = q]
  /\ UNCHANGED inventoryFrame

\* joinGameWithGifts: dbHelpers.joinGame accepts or refuses.  An accepted
\* join adds the gifts to the player's row, updatePlayerGifts(playerId,
\* giftId, -quantity) takes them from the store's inventory and
\* loadPlayerInventory sets playerInventory; a refused join returns null.
JoinGameWithGifts(accepted) ==
  /\ giftJoin.pc = "selected"
  /\ giftJoin' =
       IF accepted
         THEN [giftJoin EXCEPT !.pc = "local",
                               !.stored = @ - giftJoin.quantity,
                               !.stake = @ + giftJoin.quantity,
                               !.reloaded = TRUE]
         ELSE [giftJoin EXCEPT !.pc = "local"]
  /\ UNCHANGED inventoryFrame

\* The effect on playerInventory: userInventory is rebuilt from the rows the
\* store returned.  Whether the store still returns the row of a gift whose
\* quantity reached 0 is decided by the store.
InventoryEffect(row) ==
  /\ giftJoin.reloaded
  /\ row \/ giftJoin.stored = 0
  /\ giftJoin' = [giftJoin EXCEPT !.reloaded = FALSE,
                                  !.local = giftJoin.stored,
                                  !.hasRow = row]
  /\ UNCHANGED inventoryFrame

\* The local logic of confirmGiftSelection, run whatever the store answered:
\* the gifts are added to the player of the local list, and
\* setUserInventory takes the selected quantity from the gift the client
\* shows at that moment.
ConfirmLocal ==
  /\ giftJoin.pc = "local"
  /\ giftJoin' = [giftJoin EXCEPT
                    !.pc = "form",
                    !.local = IF giftJoin.hasRow THEN @ - giftJoin.quantity
                                                 ELSE @,
                    !.localStake = @ + giftJoin.quantity,
                    !.quantity = 0,
                    !.joins = @ + 1]
  /\ UNCHANGED inventoryFrame

InventoryNext ==
  \/ \E q \in 1..MaxInventory : HandleGiftSelection(q)
  \/ \E accepted \in BOOLEAN : JoinGameWithGifts(accepted)
  \/ \E row \in BOOLEAN : InventoryEffect(row)
  \/ ConfirmLocal

InventorySpec == InventoryInit /\ [][InventoryNext]_vars

\* ---------------------------------------------------------------- claims
\* A client is drawing for round g from the moment spinWheel selected a winner
\* until its reset timeout.
Drawing(c, g) == spin[c].pc # "idle" /\ spin[c].gameId = g

\* C1: two clients that both see the countdown of a round expire do not both
\* draw: no round is drawn by two clients.
C1_NoDuplicateDraw ==
  \A g \in GameIds : \A c, d \in Clients :
    (Drawing(c, g) /\ Drawing(d, g)) => c = d

\* C2: a winner, once written to a round, is never overwritten, and it is
\* one of the participants of that round.
C2_OneWinnerAmongParticipants ==
  [][\A g \in 1..Len(games') :
       /\ (g <= Len(games) /\ games[g].winner_id # NoPlayer)
            => games'[g].winner_id = games[g].winner_id
       /\ games'[g].winner_id # NoPlayer
            => \E i \in 1..Len(game_participants'[g]) :
                 game_participants'[g][i].player_id = games'[g].winner_id]_vars

\* The status of its current round a client shows: waiting (1), spinning (2),
\* winner shown (3).
ObservedStatus(c) ==
  IF winner[c] # NoPlayer THEN 3 ELSE IF isSpinning[c] THEN 2 ELSE 1

\* C3: the status a client observes for one round never goes backward.
C3_MonotonicStatus ==
  [][\A c \in Clients :
       (currentGameId[c] # NoGame /\ currentGameId'[c] = currentGameId[c])
         => ObservedStatus(c)' >= ObservedStatus(c)]_vars

\* C4: the store never holds two waiting rounds.
C4_AtMostOneOpenRound == Cardinality(WaitingGames) <= 1

\* The join of client c, a new player, meets a round that holds MaxPlayers
\* participants: at the store, or afterwards in the handler's local logic.
MeetsFullRound(c) ==
  /\ join[c].pc \in {"store", "local"}
  /\ Len(game_participants[join[c].gameId]) >= MaxPlayers
  /\ ~HasRow(join[c].gameId, c)

C6_NoJoinAfterLock ==
  [][\A g \in GameIds :
       (\E c \in Clients : Drawing(c, g))
         => game_participants'[g] = game_participants[g]]_vars

\* C7: a round with at most one participant has no countdown deadline.
C7_NoCountdownBelowTwo ==
  \A g \in GameIds :
    Len(game_participants[g]) <= 1 => games[g].countdown_ends_at = NoCountdown

\* No join of round g is between its store call and the end of its handler.
JoinsDone(g) ==
  \A c \in Clients : join[c].pc = "none" \/ join[c].gameId # g

\* C8: a deadline that is set is never changed, and once the joins that gave
\* a round its second participant have finished the round has a deadline.
C8_DeadlineSetOnSecondJoin ==
  [][\A g \in GameIds :
       /\ games[g].countdown_ends_at # NoCountdown
            => games'[g].countdown_ends_at = games[g].countdown_ends_at
       /\ (Len(game_participants'[g]) >= 2 /\ JoinsDone(g)')
            => games'[g].countdown_ends_at # NoCountdown]_vars

\* C9: once a round has two or more participants its countdown runs and the
\* round is settled without manual action; stated by its first step: such a
\* round eventually has a countdown deadline or is settled.
C9_CountdownRunsOrSettled ==
  \A g \in 1..MaxGames :
    (g \in GameIds /\ Len(game_participants[g]) >= 2)
      ~> (g \in GameIds
          /\ (games[g].countdown_ends_at # NoCountdown
              \/ games[g].status = "completed"))

\* C10: a client starts a draw only for a round whose deadline has been
\* reached and that holds two or more participants.
C10_DrawOnlyWhenDue ==
  [][\A c \in Clients :
       (spin[c].pc = "idle" /\ spin'[c].pc = "spun")
         => /\ currentGameId[c] # NoGame
            /\ DeadlineReached(currentGameId[c])
            /\ Len(game_participants[currentGameId[c]]) >= 2]_vars

\* C11: a waiting round whose deadline has passed while it holds fewer than
\* two participants gets its deadline cleared (or a second participant), and
\* it stays waiting: it is not drawn.
C11_DeadlineClearedBelowTwo ==
  \A g \in 1..MaxGames :
    (/\ g \in GameIds
     /\ games[g].status = "waiting"
     /\ Len(game_participants[g]) < 2
     /\ DeadlineReached(g))
      ~> (/\ g \in GameIds
          /\ games[g].status = "waiting"
          /\ (games[g].countdown_ends_at = NoCountdown
              \/ Len(game_participants[g]) >= 2))
\* The ids of the players of a pool.
PoolIds(pool) == {pool[i].player_id : i \in 1..Len(pool)}

\* C12: with every weight positive and r in [0, total), a draw that ran
\* selected a winner that is one of the players of the pool.
C12_WinnerInPool ==
  \A c \in Clients :
    (drawRun[c].pc # "ready" /\ \A i \in 1..Len(drawPool) : PlayerValue(drawPool[i]) > 0)
      => drawRun[c].winner \in PoolIds(drawPool)

\* A spinWheel draw in which the last player of the pool was selected: the
\* random value lies above every earlier cumulative sum.
C12_LastPlayerDrawn ==
  \E c \in Clients :
    /\ drawRun[c].pc = "spun"
    /\ drawRun[c].winner = drawPool[Len(drawPool)].player_id
\* The first player of the pool, in its order, whose cumulative sum of values
\* is at least r = (rnd / scale) * total.
FirstReaching(pool, rnd, scale) ==
  LET reaching == {i \in 1..Len(pool) :
                     scale * TotalValue(SubSeq(pool, 1, i))
                       >= rnd * TotalValue(pool)}
  IN IF reaching = {} THEN NoPlayer
     ELSE pool[CHOOSE i \in reaching : \A j \in reaching : i <= j].player_id

\* The random value a run of the draw read its winner from: Math.random() of
\* spinWheel, the final angle of the wheel for animateSpin.
RunRandom(c) == IF drawRun[c].pc = "animated" THEN drawRun[c].angle ELSE drawRnd

\* C13: the winner of a draw is the first player, in the order of the pool,
\* whose cumulative sum of values is at least r; in particular with the values
\* 10 then 90, r = 5 selects the first player and r = 50 the second.
C13_FirstReachingSumWins ==
  \A c \in Clients :
    drawRun[c].pc # "ready"
      => drawRun[c].winner = FirstReaching(drawPool, RunRandom(c), DrawScale)
\* C14: two runs of the same draw on the same pool, in the same order, with
\* the same r select the same winner, whichever client runs it and whatever
\* angle the wheel is animated to.
C14_SameInputsSameWinner ==
  \A c, d \in Clients :
    (drawRun[c].pc # "ready" /\ drawRun[d].pc = drawRun[c].pc)
      => drawRun[d].winner = drawRun[c].winner
\* The sum of the numerators of the wheel's segment shares, from segment i on.
RECURSIVE SumShares(_, _)
SumShares(pool, i) ==
  IF i > Len(pool) THEN 0
  ELSE SegmentShare(pool, i)[1] + SumShares(pool, i + 1)

\* C15 as stated: the reported chance of the winner equals
\* weight(winner) / total (10 of 100 gives 0.10), with weight = balance + gift
\* value and total the sum over the pool of the draw.
C15_ChanceIsFraction ==
  \A c \in Clients :
    (drawRun[c].pc = "spun" /\ drawRun[c].winner # NoPlayer)
      => drawRun[c].chance[1] * TotalValue(drawPool)
           = PlayerValue(drawPool[PoolPlayer(drawPool, drawRun[c].winner)])
               * drawRun[c].chance[2]

\* C15, amended: the reported chance of the winner is the percentage
\* 100 * weight(winner) / total (10 of 100 gives 10), with weight = balance +
\* gift value and total the sum over the pool of the draw; the shares of the
\* wheel of all players of the pool sum to one full turn.
C15_ChanceIsPercentage ==
  \A c \in Clients :
    (drawRun[c].pc = "spun" /\ drawRun[c].winner # NoPlayer)
      => /\ drawRun[c].chance[1] * TotalValue(drawPool)
              = 100 * PlayerValue(drawPool[PoolPlayer(drawPool, drawRun[c].winner)])
                  * drawRun[c].chance[2]
         /\ SumShares(drawPool, 1) = SegmentShare(drawPool, 1)[2]

\* The player with value 10 of a pool of 10 and 90 won with r = 5 and a
\* reported chance of 10.
C15_TenOfHundredWon ==
  \E c \in Clients :
    /\ drawRun[c].pc = "spun"
    /\ Len(drawPool) = 2
    /\ PlayerValue(drawPool[1]) = 10 /\ PlayerValue(drawPool[2]) = 90
    /\ 100 * drawRnd = 5 * DrawScale
    /\ drawRun[c].winner = drawPool[1].player_id
    /\ drawRun[c].chance[1] = 10 * drawRun[c].chance[2]
\* Delivering the game_participants notification in this state would leave the
\* mirror of client c as it is: loadGameParticipants and the sync effect write
\* what the mirror already holds.
ParticipantsReloadIsNoOp(c) ==
  \E rows \in {SortByPosition(game_participants[currentGameId[c]])} :
    LET db == TransformParticipants(rows) IN
      /\ dbPlayers[c] = db
      /\ players[c] = SyncPlayers(players[c], db)

\* The same for the games notification: getCurrentGame(0) and the sync effect.
GameReloadIsNoOp(c) ==
  LET g == DbGetCurrentGame
      db == TransformParticipants(game_participants[g]) IN
    /\ g # NoGame
    /\ currentGameId[c] = g
    /\ dbPlayers[c] = db
    /\ players[c] = SyncPlayers(players[c], db)

\* The step changed the mirror of client c (a reload changes nothing else).
MirrorChanged(c) ==
  \/ currentGameId'[c] # currentGameId[c]
  \/ dbPlayers'[c] # dbPlayers[c]
  \/ players'[c] # players[c]

C18_JoinSucceedsLocally ==
  [][\A c \in Clients :
       (storeDown /\ join[c].pc # "none" /\ join'[c].pc = "none")
         => HasPlayer(players'[c], c)]_vars
\* The step is client c issuing a remote write for game g: joinGame,
\* startGameCountdown, the 'spin' log entry of spinWheel, or completeGame.
IssuesRemoteWrite(c, g) ==
  \/ /\ join[c].pc = "store" /\ join'[c].pc = "local"
     /\ join[c].gameId = g
  \/ /\ join[c].pc = "local" /\ join'[c].pc = "none"
     /\ ~join[c].existing /\ join[c].len = 1
     /\ join[c].capGameId = g
  \/ /\ spin[c].pc = "idle" /\ spin'[c].pc = "spun"
     /\ spin'[c].gameId = g
  \/ /\ spin[c].pc = "spun" /\ spin'[c].pc = "shown"
     /\ spin[c].selectedWinner # NoPlayer
     /\ spin[c].gameId = g

\* C19: once a store call of a client has failed in a round, the client
\* issues no further remote write (join, countdown start, log, complete) for
\* that round.
C19_NoRemoteWriteAfterFailure ==
  [][\A c \in Clients :
       storeFailure[c] # NoGame => ~IssuesRemoteWrite(c, storeFailure[c])]_vars
\* C17: a client that has lost the store after its round was created, and
\* shows two or more participants of it, still gets to a winner: its
\* countdown reaches zero, the draw runs and the winner is shown.  (The round
\* has a deadline that the clock of the model reaches, and no spin has used
\* up the spins of the model.)
C17_RoundSettlesWithoutStore ==
  \A c \in Clients :
    (/\ storeDown
     /\ currentGameId[c] # NoGame
     /\ Len(ActivePlayers(c)) >= 2
     /\ games[currentGameId[c]].countdown_ends_at # NoCountdown
     /\ games[currentGameId[c]].countdown_ends_at <= MaxNow
     /\ SpinsStarted(Clients) = 0)
      ~> (winner[c] # NoPlayer)
\* C20: a client triggers at most one draw per round: it does not start a
\* draw on a round that an earlier draw of its own has already settled (the
\* store names the client that completed the round), however often it sees the
\* countdown at zero.
C20_OneDrawPerRound ==
  [][\A c \in Clients :
       (spin[c].pc = "idle" /\ spin'[c].pc = "spun"
        /\ spin'[c].gameId # NoGame)
         => ~(/\ games[spin'[c].gameId].status = "completed"
              /\ games[spin'[c].gameId].winner_id = c)]_vars
\* C21: a round that follows a settled round carries the sequence number of
\* that round plus one: the sequence numbers of successive rounds
\* are strictly increasing and never reused.
C21_NextRoundNumbered ==
  \A g \in GameIds :
    (g > 1 /\ games[g - 1].status = "completed")
      => games[g].roll_number = games[g - 1].roll_number + 1
\* C22: a join whose stake would have a total weight of zero or less, or a
\* balance that is negative or not a number, is refused: every player of the
\* round has a weight above zero.
C22_EveryStakePositive ==
  \A i \in 1..Len(stakeRound.players) :
    stakeRound.players[i].balance + stakeRound.players[i].giftValue > 0
\* C23: a join with balance is accepted only for a balance from 10 to
\* 10,000; for any other balance no player is added.
C23_BalanceFrom10To10000 ==
  stakeRound.outcome = "balance"
    => LET joined == stakeRound.players[Len(stakeRound.players)] IN
         joined.balance >= 10 /\ joined.balance <= 10000
\* C24: the winner written to the store when a client settles a round is the
\* player its draw selected, not another player such as the client itself.
C24_StoredWinnerIsDrawn ==
  [][\A c \in Clients :
       (/\ spin[c].pc = "spun" /\ spin'[c].pc = "shown"
        /\ spin[c].gameId # NoGame
        /\ games[spin[c].gameId].status = "waiting"
        /\ games'[spin[c].gameId].status = "completed")
         => games'[spin[c].gameId].winner_id = spin[c].selectedWinner]_vars
\* C25: two clients that show a winner for the same round show the same
\* player, and it is the winner the store holds for that round.
C25_AnnouncedWinnersAgree ==
  \A c, d \in Clients :
    (/\ spin[c].pc = "shown" /\ winner[c] # NoPlayer
     /\ spin[d].pc = "shown" /\ winner[d] # NoPlayer
     /\ spin[c].gameId # NoGame
     /\ spin[c].gameId = spin[d].gameId)
      => /\ winner[c] = winner[d]
         /\ winner[c] = games[spin[c].gameId].winner_id
\* The step completes a reconciliation of client c: getCurrentGame found or
\* created the current round, or loadGameParticipants reloaded its rows.
Reconciled(c) ==
  \/ GcFetch(c) /\ DbGetCurrentGame # NoGame
  \/ GcCreate(c)
  \/ LoadGame(c)
  \/ LoadParticipants(c)

\* The participants of a list, without their order.
ListedPlayers(list) == {list[i] : i \in 1..Len(list)}

\* The participants the wheel of client c displays (activePlayers) are the
\* rows the store holds for the client's current round.
DisplaysStoreList(c) ==
  ListedPlayers(ActivePlayers(c))
    = ListedPlayers(TransformParticipants(game_participants[currentGameId[c]]))

\* C26: remote always wins: when a reconciliation of a client completes, the
\* participant list the client displays equals the store's list for its
\* current round, also when the store's list is empty or lacks a participant
\* the client added locally.
C26_RemoteAlwaysWins ==
  [][\A c \in Clients :
       (currentGameId'[c] # NoGame /\ ~DisplaysStoreList(c)')
         => ~Reconciled(c)]_vars
\* C27: the answer of a reload that was asked for an older round than the one
\* the client displays by now changes nothing of the client's mirror (current
\* game id, participant lists).
C27_StaleReloadDiscarded ==
  [][\A c \in Clients :
       (/\ reload[c].pc = "sent" /\ reload'[c].pc = "none"
        /\ reload[c].gameId < currentGameId[c])
         => /\ currentGameId'[c] = currentGameId[c]
            /\ dbPlayers'[c] = dbPlayers[c]
            /\ players'[c] = players[c]]_vars
\* C28: a spin asked for from an invalid state is a no-op: with fewer than
\* two participants in the pool, or while the client's spin is in progress or
\* done, the client's run of the draw (its status, its winner, the reported
\* chance) stays as it is.
C28_InvalidSpinIsNoOp ==
  [][\A c \in Clients :
       (Len(drawPool) < 2 \/ drawRun[c].pc # "ready")
         => drawRun'[c] = drawRun[c]]_vars
\* C29: in the store every round holds each player at most once (a repeated
\* join adds stake to the player's row), and the rows of a round carry
\* distinct position indexes that increase in the order of the joins, so that
\* the pool ordered by position is the pool in join order, also when clients
\* join concurrently.
C29_OneRowPerPlayerInJoinOrder ==
  \A g \in GameIds :
    \A i, j \in 1..Len(game_participants[g]) :
      i < j => /\ game_participants[g][i].player_id
                    # game_participants[g][j].player_id
               /\ game_participants[g][i].position_index
                    < game_participants[g][j].position_index
\* The pot of round g in the store: the stakes of its rows.
RECURSIVE StorePot(_)
StorePot(rows) ==
  IF rows = <<>> THEN 0 ELSE rows[1].gift_value + StorePot(Tail(rows))

\* C30: from the start of a client's spin to the end of its winner display
\* the round is frozen: the pool the client displays (participants and
\* stakes, hence the pot and every reported chance), the selected winner and
\* the pot of the round in the store stay as they were when the spin started.
C30_LockedRoundFrozen ==
  [][\A c \in Clients :
       (spin[c].pc # "idle" /\ spin'[c].pc # "idle")
         => /\ ActivePlayers(c)' = ActivePlayers(c)
            /\ spin'[c].selectedWinner = spin[c].selectedWinner
            /\ spin[c].gameId # NoGame
                 => StorePot(game_participants'[spin[c].gameId])
                      = StorePot(game_participants[spin[c].gameId])]_vars
\* Every participant of the list before is in the list after, with at least
\* the weight it had.
KeepsParticipants(before, after) ==
  \A i \in 1..Len(before) :
    \E j \in 1..Len(after) :
      /\ after[j].player_id = before[i].player_id
      /\ PlayerValue(after[j]) >= PlayerValue(before[i])

\* C31: within one round no participant is removed and no participant's
\* weight decreases, in the store and in the list a client displays; a
\* client's list loses participants only when the spin's reset or a new
\* current round replaces it.
C31_ParticipantsOnlyGrow ==
  [][/\ \A g \in GameIds :
          KeepsParticipants(TransformParticipants(game_participants[g]),
                            TransformParticipants(game_participants'[g]))
     /\ \A c \in Clients :
          (/\ currentGameId'[c] = currentGameId[c]
           /\ ~(spin[c].pc = "shown" /\ spin'[c].pc = "idle"))
            => KeepsParticipants(ActivePlayers(c), ActivePlayers(c)')]_vars
\* C32: a round is created only after the rounds before it are settled: when
\* a game is inserted into the store, no game of the store is still waiting.
C32_NewRoundAfterSettled ==
  [][Len(games') > Len(games)
       => \A g \in GameIds : games[g].status = "completed"]_vars
\* The step in which client c writes a match history entry: the SPIN_DURATION
\* timeout with a selected winner, setMatchHistory([matchEntry, ...prev]).
\* The entry carries the roll number and the pool of the render that spun.
HistoryAppended(c) ==
  /\ spin[c].pc = "spun" /\ spin'[c].pc = "shown"
  /\ spin[c].selectedWinner # NoPlayer

\* C33: one history record per settled round: a client writes a record only
\* in the step that settles the round in the store (so none for a round that
\* is not settled and no second one for a round already settled), and the
\* record carries the sequence number of that round.
C33_OneRecordPerSettledRound ==
  [][\A c \in Clients :
       HistoryAppended(c)
         => /\ spin[c].gameId # NoGame
            /\ games[spin[c].gameId].status = "waiting"
            /\ games'[spin[c].gameId].status = "completed"
            /\ spin[c].roll = games[spin[c].gameId].roll_number]_vars
\* C34: the event log is append-only: it holds every entry ever added, each
\* once, in the order of the additions (the newest first).
C34_LogHoldsEveryEntry ==
  \A c \in Clients :
    /\ Len(gameLog[c]) = logCount[c]
    /\ \A i \in 1..Len(gameLog[c]) : gameLog[c][i] = logCount[c] + 1 - i
\* The step in which client c announces a winner: setWinner(selectedWinner)
\* and the winner modal.
Announces(c) == winner[c] = NoPlayer /\ winner'[c] # NoPlayer

\* C35: a client surfaces the winner of a settlement once: it does not
\* announce a winner for a round whose settlement it has announced before
\* (the round is completed in the store by this client's own earlier draw).
C35_WinnerAnnouncedOnce ==
  [][\A c \in Clients :
       (Announces(c) /\ spin[c].gameId # NoGame)
         => ~(/\ games[spin[c].gameId].status = "completed"
              /\ games[spin[c].gameId].winner_id = c
              /\ rollNumber[c] > InitialRollNumber)]_vars
\* C36: a draw on an empty pool or on a pool whose total weight is zero or
\* less selects no winner.
C36_NoWinnerWithoutWeight ==
  [][\A c \in Clients :
       (/\ TotalValue(drawPool) <= 0
        /\ drawRun[c].pc = "ready" /\ drawRun'[c].pc # "ready")
         => drawRun'[c].winner = NoPlayer]_vars
\* C37: a client that abandons the round does not block the others: the
\* only round of the store, holding two or more participants and a deadline
\* that the clock reaches, is eventually settled and followed by a next
\* round, whatever the abandoning client did or left undone.  (The spins of
\* the model are bounded: a behaviour in which the abandoning client alone
\* uses them up is left aside.)
C37_AbandonedRoundSettles ==
  (IF Len(games) # 1 THEN FALSE
   ELSE /\ games[1].status = "waiting"
        /\ Len(game_participants[1]) >= 2
        /\ games[1].countdown_ends_at # NoCountdown
        /\ games[1].countdown_ends_at <= MaxNow
        /\ SpinsStarted(Clients) = 0)
    ~> (\/ IF Len(games) < 2 THEN FALSE ELSE games[1].status = "completed"
        \/ SpinsStarted({Abandoner}) >= MaxSpins)
\* C38: a load-only fetch never creates a round: a game is inserted into the
\* store only by a getCurrentGame call with a positive roll number that found
\* no waiting game; a call with roll number 0 leaves the games and the
\* participants of the store as they are.
C38_LoadOnlyNeverCreates ==
  [][/\ Len(games') > Len(games)
          => \E c \in Clients : /\ gc[c].pc = "create" /\ gc[c].roll > 0
                                /\ gc'[c].pc = "none"
     /\ \A c \in Clients :
          (gc[c].pc = "fetch" /\ gc[c].roll = 0 /\ gc'[c].pc = "none")
            => /\ games' = games
               /\ game_participants' = game_participants]_vars

\* A load-only fetch is in flight while the store holds no waiting game and
\* has room for another game.
C38_LoadOnlyMeetsNoWaitingGame ==
  \E c \in Clients :
    /\ gc[c].pc = "fetch" /\ gc[c].roll = 0
    /\ WaitingGames = {}
    /\ games # <<>>
    /\ Len(games) < MaxGames
\* C39: stake conservation: whenever the join handler has returned and the
\* inventory effect has run, the quantity the client shows is not negative,
\* it is the quantity the store holds, and what has left the inventory is
\* what the player's stake of the round holds.
C39_StakeConserved ==
  (giftJoin.pc = "form" /\ ~giftJoin.reloaded)
    => /\ giftJoin.local >= 0
       /\ giftJoin.local = giftJoin.stored
       /\ giftJoin.initial - giftJoin.local = giftJoin.stake
====
